---- MODULE Spec2Model ----
(***************************************************************************)
(* A model of ngq's Track (src/view/model/track.rs) and of the App's       *)
(* message passing (src/view/app.rs).                                      *)
(*                                                                         *)
(*   Spec      the Track as a sequential object: every action is one whole *)
(*             method call (append_preview_samples,                        *)
(*             set_estimated_samples_per_packet, progress) or the Player   *)
(*             marking the track analyzed.                                 *)
(*   SpecLP    Track::live_preview as a function of the buffer and its     *)
(*             arguments.                                                  *)
(*   SpecConc  two tasks appending to one Track, lock step by lock step.   *)
(*   SpecApp   the key handler, the UI loop and the Player connected by    *)
(*             the three tokio channels of App::run.                       *)
(***************************************************************************)
EXTENDS Integers, Sequences, FiniteSets, TLC

VARIABLES
    \* ---- Track (track.rs:14-30)
    n_frames,                      \* codec_params.n_frames: Option<u64>
    max_frames_per_packet,         \* codec_params.max_frames_per_packet: Option<u64>
    preview_buffer,                \* RwLock<Vec<PreviewSample>>
    estimated_samples_per_packet,  \* RwLock<Option<usize>>
    analyzed,                      \* bool
    \* ---- what a caller of Track::progress has seen
    progress_res,                  \* result of the call that was the last operation
    progress_seen,                 \* the latest numeric result, as Option
    \* ---- the arguments of the set_estimated_samples_per_packet calls so far
    est_calls,
    \* ---- a caller of Track::live_preview
    lp_args,                       \* Option: the arguments of the call that was the last operation
    lp_res,                        \* and what it returned
    \* ---- tasks sharing one Track (SpecConc)
    task_pc,                       \* where each task is in its call
    task_batch,                    \* the batch each task passed to append_preview_samples
    task_pending,                  \* the part of it Vec::append has not moved yet
    task_start,                    \* the buffer length when the task got the lock
    overlapped,                    \* a call was made while another was in progress
    lock_writer,                   \* holder of preview_buffer's write lock, as Option
    \* ---- App::run: channels and tasks (SpecApp)
    key_events,                    \* channel::<Event>(10), app.rs:64
    player_events,                 \* channel::<player::Event>(1), app.rs:65
    player_messages,               \* channel::<player::Message>(1), app.rs:66
    kh_pc,                         \* key handler: "read" or "send"
    kh_ev,                         \* the Event it is sending, as Option
    ui_pc,                         \* UI loop: "draw", "recv_key", "send", "recv_player", "exited"
    ui_msg,                        \* the Message update is sending, as Option
    app_player_position,           \* App.player_position, app.rs:43
    player_pc,                     \* Player task: "loop" or "send_event"
    player_state,                  \* "Idle", "Playing" or "Paused"
    position,                      \* the Player's position in packets
    pressed,                       \* history: the keys read, in order
    received,                      \* history: the Messages the Player received, in order
    \* ---- Track::preview and its caller
    channels,                      \* codec_params.channels, as Option of the channel count
    pv_args,                       \* the target_size of the last preview call, as Option
    pv_res,                        \* its outcome [panic, out], as Option
    \* ---- tasks inside set_estimated_samples_per_packet and live_preview
    task_arg,                      \* per task: the value passed to set_estimated_samples_per_packet
    task_seen,                     \* per task: the copy of the estimate read at track.rs:52-53
    est_seen,                      \* history: the last Some(v) a reader of the estimate saw
    lock_readers,                  \* the tasks holding a read guard of preview_buffer
    task_args,                     \* per task: the arguments of its live_preview call, as Option
    task_snapshot,                 \* per task: the copy of the buffer made at track.rs:123
    task_result                    \* per task: the outcome of live_preview, as Option

\* ------------------------------------------------------------------------
\* Option<T>: None is the empty set, Some(v) the singleton.
\* ------------------------------------------------------------------------
None == {}

Some(v) == {v}

Unwrap(o) == CHOOSE v \in o : TRUE

\* Option::or
OptOr(a, b) == IF a # None THEN a ELSE b

\* progress_res before any call, or after another operation intervened
NotCalled == {0 - 1}

\* ------------------------------------------------------------------------
\* Bounds and input domains
\* ------------------------------------------------------------------------
\* longest preview buffer explored
MaxBuf == 8

\* longest batch handed to one append_preview_samples call
MaxBatch == 2

\* number of set_estimated_samples_per_packet calls explored
MaxSetCalls == 2

\* widest window asked of live_preview
MaxTarget == 10

\* greatest player position (in packets) passed to live_preview
MaxPos == 2

\* greatest playhead position passed to live_preview
MaxPlayhead == 1

\* PreviewSample values; 0 is the sample with lows = mids = highs = 0.0
Samples == {1, 2}

ZeroSample == 0

\* number of preview samples the Analyzer emits per packet
K == 4

NFramesVals == {None, Some(100), Some(1000)}

MaxFppVals == {None, Some(14), Some(200)}

EstVals == {15, 200}

\* codec_params.channels: unknown, or stereo
ChannelsVals == {None, Some(2)}

Min(a, b) == IF a <= b THEN a ELSE b

RECURSIVE SeqsUpTo(_, _)
\* all sequences over S of length at most n
SeqsUpTo(S, n) ==
    IF n = 0 THEN {<<>>}
    ELSE LET shorter == SeqsUpTo(S, n - 1)
         IN  shorter \cup {Append(s, x) : s \in {t \in shorter : Len(t) = n - 1}, x \in S}

Batches == SeqsUpTo(Samples, MaxBatch)

\* ------------------------------------------------------------------------
\* IEEE-754 binary64 arithmetic of Track::progress, track.rs:90:
\*     (n_analyzed_frames as f64 / n_frames as f64 * 100.0).ceil() as u8
\* for operands far below 2^53, so that both conversions to f64 are exact.
\* ------------------------------------------------------------------------
RECURSIVE ScaleUp(_, _)
\* the least x * 2^i that is >= y  (x > 0)
ScaleUp(x, y) == IF x >= y THEN x ELSE ScaleUp(2 * x, y)

RECURSIVE ScaleDen(_, _)
\* the greatest y * 2^i that is <= x  (0 < y <= x)
ScaleDen(x, y) == IF 2 * y > x THEN y ELSE ScaleDen(x, 2 * y)

RECURSIVE LongDiv(_, _, _, _)
\* `steps` further bits of the binary long division of a remainder rem < den:
\* the last quotient bit produced and the final remainder
LongDiv(rem, den, bit, steps) ==
    IF steps = 0 THEN [bit |-> bit, rem |-> rem]
    ELSE IF 2 * rem >= den
         THEN LongDiv(2 * rem - den, den, 1, steps - 1)
         ELSE LongDiv(2 * rem, den, 0, steps - 1)

\* Does a / n, rounded to the nearest binary64 (ties to even), then times
\* 100.0, rounded again, land above the exact quotient q = 100 a / n, when q
\* is an integer?  The quotient a / n = (num / den) * 2^e with
\* 1 <= num / den < 2 has the 53-bit significand m = floor(num * 2^52 / den)
\* and the remainder r = num * 2^52 mod den.
F64ProductAbove(a, n) ==
    LET num == ScaleUp(a, n)
        den == ScaleDen(num, n)
        d   == LongDiv(num - den, den, 1, 52)
        roundsUp == 2 * d.rem > den \/ (2 * d.rem = den /\ d.bit = 1)
        \* ulp(100 a / n) / ulp(a / n): 64 below 128 * 2^e, else 128
        ulpRatio == IF 100 * num < 128 * den THEN 64 ELSE 128
    IN  /\ roundsUp
        \* 100 * (rounding error of a / n) exceeds half an ulp of the product
        /\ 200 * (den - d.rem) > den * ulpRatio

\* ((a as f64 / n as f64) * 100.0).ceil(), n > 0
F64CeilPercent(a, n) ==
    IF a = 0 THEN 0
    ELSE IF (100 * a) % n # 0 THEN (100 * a) \div n + 1
    ELSE (100 * a) \div n + (IF F64ProductAbove(a, n) THEN 1 ELSE 0)

\* `as u8` of a non-negative float: saturating
AsU8(x) == Min(x, 255)

\* track.rs:90 with n_frames = 0: 0.0/0.0 is NaN and NaN as u8 = 0;
\* x/0.0 is +inf and inf as u8 = 255
PercentAsU8(a, n) ==
    IF n = 0 THEN (IF a = 0 THEN 0 ELSE 255)
    ELSE AsU8(F64CeilPercent(a, n))

RECURSIVE Pow2Below(_, _, _)
\* the greatest power of two p' >= p with p' * den < x  (p * den < x)
Pow2Below(p, x, den) == IF 2 * p * den < x THEN Pow2Below(2 * p, x, den) ELSE p

\* Does a / n, rounded to the nearest binary64, then times c, rounded again,
\* land below the exact product P = c a / n, when P is an integer?  The
\* quotient must have been rounded down, and c times its rounding error must
\* exceed half the spacing of the binary64 numbers just below P (a tie goes
\* to P, whose significand is even).
F64ProductBelow(a, n, c) ==
    LET num == ScaleUp(a, n)
        den == ScaleDen(num, n)
        d   == LongDiv(num - den, den, 1, 52)
        roundsUp == 2 * d.rem > den \/ (2 * d.rem = den /\ d.bit = 1)
        \* (spacing below P) / ulp(a / n)
        spacing == Pow2Below(1, c * num, den)
    IN  /\ ~roundsUp
        /\ d.rem > 0
        /\ 2 * c * d.rem > spacing * den

\* track.rs:159-160: (target_size as f64 * (a as f64 / n as f64 * 2.0)).floor()
\* for n > 0; the doubling is exact
F64FloorScaled(target_size, a, n) ==
    IF a = 0 \/ target_size = 0 THEN 0
    ELSE IF (2 * target_size * a) % n # 0 THEN (2 * target_size * a) \div n
    ELSE (2 * target_size * a) \div n
           - (IF F64ProductBelow(a, n, 2 * target_size) THEN 1 ELSE 0)

\* ------------------------------------------------------------------------
\* Track (track.rs)
\* ------------------------------------------------------------------------
trackVars == <<n_frames, max_frames_per_packet, preview_buffer,
               estimated_samples_per_packet, analyzed>>

obsVars == <<progress_res, progress_seen, est_calls>>

pvVars == <<channels, pv_args, pv_res>>

lpVars == <<lp_args, lp_res, pvVars>>

estVars == <<task_arg, task_seen, est_seen>>

readVars == <<lock_readers, task_args, task_snapshot, task_result>>

concVars == <<task_pc, task_batch, task_pending, task_start, overlapped, lock_writer,
              estVars, readVars>>

appVars == <<key_events, player_events, player_messages, kh_pc, kh_ev, ui_pc, ui_msg,
             app_player_position, player_pc, player_state, position,
             pressed, received>>

vars == <<trackVars, obsVars, lpVars, concVars, appVars>>

Tasks == {1, 2}

\* the variables of the other specifications, at rest
ObsIdle == progress_res = NotCalled /\ progress_seen = None /\ est_calls = <<>>

PvIdle == channels = None /\ pv_args = None /\ pv_res = None

LpIdle == lp_args = None /\ lp_res = None /\ PvIdle

ConcIdle ==
    /\ task_pc = [t \in Tasks |-> "idle"]
    /\ task_batch = [t \in Tasks |-> <<>>]
    /\ task_pending = [t \in Tasks |-> <<>>]
    /\ task_start = [t \in Tasks |-> 0]
    /\ overlapped = FALSE
    /\ lock_writer = None
    /\ task_arg = [t \in Tasks |-> None]
    /\ task_seen = [t \in Tasks |-> None]
    /\ est_seen = None
    /\ lock_readers = {}
    /\ task_args = [t \in Tasks |-> None]
    /\ task_snapshot = [t \in Tasks |-> <<>>]
    /\ task_result = [t \in Tasks |-> None]

\* App::default, app.rs:46-53, and the state of App::run before its loop,
\* app.rs:64-73: empty channels, the key handler and the Player spawned
AppIdle ==
    /\ key_events = <<>>
    /\ player_events = <<>>
    /\ player_messages = <<>>
    /\ kh_pc = "read"
    /\ kh_ev = None
    /\ ui_pc = "draw"
    /\ ui_msg = None
    /\ app_player_position = 0
    /\ player_pc = "loop"
    /\ player_state = "Idle"
    /\ position = 0
    /\ pressed = <<>>
    /\ received = <<>>

\* Track::new, track.rs:33-44: empty buffer, no estimate, not analyzed
TrackNew ==
    /\ preview_buffer = <<>>
    /\ estimated_samples_per_packet = None
    /\ analyzed = FALSE

\* mutant: the `if let None` of track.rs:54 is missing, every call overwrites
SetAlways(current, v) == Some(v)

\* track.rs:54-57: the estimate is written only when none is stored
SetIfAbsent(current, v) == IF current = None THEN Some(v) ELSE current

\* mutant: the batch is put in front of the buffer
VecPrepend(buf, batch) == batch \o buf

\* Vec::append at track.rs:66: the batch goes to the tail, in its order
VecAppend(buf, batch) == buf \o batch

\* mutant: the estimate is not consulted
get_frames_per_packet_codec_only ==
    IF max_frames_per_packet = None THEN None
    ELSE Some(Unwrap(max_frames_per_packet) \div 2)

\* Track::get_frames_per_packet, track.rs:97-105
get_frames_per_packet ==
    LET frames_per_packet == OptOr(max_frames_per_packet, estimated_samples_per_packet)
    IN  IF frames_per_packet = None THEN None
        ELSE Some(Unwrap(frames_per_packet) \div 2)

\* Track::progress, track.rs:71-94
progress ==
    IF analyzed THEN Some(100)
    ELSE LET frames_per_packet == get_frames_per_packet
         IN  IF frames_per_packet # None /\ n_frames # None
             THEN LET n_analyzed_packets == Len(preview_buffer) \div K
                      n_analyzed_frames  == n_analyzed_packets * Unwrap(frames_per_packet)
                  IN  Some(PercentAsU8(n_analyzed_frames, Unwrap(n_frames)))
             ELSE None

\* Track::append_preview_samples, track.rs:61-67
append_preview_samples(batch) ==
    /\ Len(preview_buffer) + Len(batch) <= MaxBuf
    /\ preview_buffer' = VecAppend(preview_buffer, batch)
    /\ UNCHANGED <<n_frames, max_frames_per_packet, estimated_samples_per_packet,
                   analyzed>>

\* a caller of append_preview_samples
CallAppend(batch) ==
    /\ append_preview_samples(batch)
    /\ progress_res' = NotCalled
    /\ UNCHANGED <<progress_seen, est_calls, lpVars, concVars, appVars>>

\* Track::set_estimated_samples_per_packet, track.rs:51-58
set_estimated_samples_per_packet(v) ==
    /\ Len(est_calls) < MaxSetCalls
    /\ estimated_samples_per_packet' = SetIfAbsent(estimated_samples_per_packet, v)
    /\ est_calls' = Append(est_calls, v)
    /\ progress_res' = NotCalled
    /\ UNCHANGED <<n_frames, max_frames_per_packet, preview_buffer, analyzed,
                   progress_seen, lpVars, concVars, appVars>>

\* The Player at the end of the stream: "sets analyzed = true on the Track"
SetAnalyzed ==
    /\ ~analyzed
    /\ analyzed' = TRUE
    /\ progress_res' = NotCalled
    /\ UNCHANGED <<n_frames, max_frames_per_packet, preview_buffer,
                   estimated_samples_per_packet, progress_seen, est_calls,
                   lpVars, concVars, appVars>>

\* a caller of Track::progress, track.rs:71-94; &self, the Track is unchanged
CallProgress ==
    /\ progress_res' = progress
    /\ progress_seen' = IF progress # None THEN progress ELSE progress_seen
    /\ UNCHANGED <<trackVars, est_calls, lpVars, concVars, appVars>>

Init ==
    /\ n_frames \in NFramesVals
    /\ max_frames_per_packet \in MaxFppVals
    /\ TrackNew
    /\ ObsIdle
    /\ LpIdle
    /\ ConcIdle
    /\ AppIdle

Next ==
    \/ \E batch \in Batches : CallAppend(batch)
    \/ \E v \in EstVals : set_estimated_samples_per_packet(v)
    \/ SetAnalyzed
    \/ CallProgress

Spec == Init /\ [][Next]_vars

\* ------------------------------------------------------------------------
\* Claims about the Track as a sequential object (Spec)
\* ------------------------------------------------------------------------

\* C2: successive numeric results of progress() never decrease over appends,
\* set_estimated_samples_per_packet calls and the analyzed flag becoming set,
\* and a call on an analyzed track returns exactly 100.
ProgressNeverDecreases ==
    [][/\ (progress_seen # None /\ progress_seen' # None
            => Unwrap(progress_seen') >= Unwrap(progress_seen))
       /\ (analyzed' /\ progress_res' # NotCalled => progress_res' = Some(100))]_vars

\* C3: every numeric result of progress() lies in 0..=100.
ProgressInRange ==
    progress_seen # None => Unwrap(progress_seen) \in 0..100

\* C4: the preview buffer is append-only: a step never shortens it, never
\* changes a sample already written, and a step that changes it is an
\* append_preview_samples call whose batch becomes the new tail, in the order
\* of the batch.
BufferAppendOnly ==
    [][/\ Len(preview_buffer') >= Len(preview_buffer)
       /\ SubSeq(preview_buffer', 1, Len(preview_buffer)) = preview_buffer
       /\ (preview_buffer' # preview_buffer
            => \E batch \in Batches :
                  /\ CallAppend(batch)
                  /\ preview_buffer' = preview_buffer \o batch)]_vars

\* C4 witness: two appends have happened, with distinct samples in the buffer
BufferAppendOnlyWitness ==
    /\ Len(preview_buffer) > MaxBatch
    /\ preview_buffer[1] # preview_buffer[2]

\* C6: after set_estimated_samples_per_packet calls in sequence, the stored
\* estimate is the value of the first call; later calls have no effect.
EstimateWriteOnce ==
    est_calls # <<>> => estimated_samples_per_packet = Some(est_calls[1])

\* C6 witness: a second call with a different value has returned
EstimateWriteOnceWitness ==
    /\ Len(est_calls) = 2
    /\ est_calls[1] # est_calls[2]
    /\ estimated_samples_per_packet = Some(est_calls[1])

CeilDiv(num, den) == IF num % den = 0 THEN num \div den ELSE num \div den + 1

\* C11: on a track that is not analyzed, with n_frames and a frames-per-packet
\* value known, progress() = ceil(floor(len / K) * fpp / n_frames * 100), fpp
\* being half of max_frames_per_packet when the codec reports it and half of
\* the estimate otherwise.
ProgressFormula ==
    (/\ progress_res # NotCalled
     /\ ~analyzed
     /\ n_frames # None
     /\ (max_frames_per_packet # None \/ estimated_samples_per_packet # None))
    => LET fpp == IF max_frames_per_packet # None
                  THEN Unwrap(max_frames_per_packet) \div 2
                  ELSE Unwrap(estimated_samples_per_packet) \div 2
       IN  progress_res
             = Some(CeilDiv((Len(preview_buffer) \div K) * fpp * 100, Unwrap(n_frames)))

\* ------------------------------------------------------------------------
\* Track::live_preview (SpecLP)
\* ------------------------------------------------------------------------

\* `x as usize` of the f32 x = h / 2.0, track.rs:130-131: truncation toward
\* zero, negative values saturate to 0.  player_pos and target_size lie far
\* below 2^24, so the f32 subtraction, addition and halving are exact.
HalvesAsUsize(h) == IF h <= 0 THEN 0 ELSE h \div 2

\* vec![0.0; n] mapped to PreviewSample { mids: 0, lows: 0, highs: 0 },
\* track.rs:136-143
ZeroPadding(n) == [i \in 1..n |-> ZeroSample]

\* an index out of range: the slice expression panics
Panicked == [panic |-> TRUE, out |-> <<>>]

Returned(out) == [panic |-> FALSE, out |-> out]

\* buf[l..r] of track.rs:133 and track.rs:145, l and r counted from 0
Slice(buf, l, r) ==
    IF l > r \/ r > Len(buf) THEN Panicked ELSE Returned(SubSeq(buf, l + 1, r))

\* mutant: the window is moved by the playhead position
live_preview_playhead(buf, target_size, player_position, playhead_position) ==
    LET player_pos == player_position * K + playhead_position
        diff == player_pos - (target_size \div 2)
    IN  IF diff >= 0
        THEN LET l == HalvesAsUsize(2 * player_pos - target_size)
                 r == Min(HalvesAsUsize(2 * player_pos + target_size), Len(buf))
             IN  Slice(buf, l, r)
        ELSE LET padding == ZeroPadding(-diff)
             IN  IF Len(buf) > 0
                 THEN LET rest == Slice(buf, 0, target_size - (-diff))
                      IN  IF rest.panic THEN Panicked
                          ELSE Returned(padding \o rest.out)
                 ELSE Returned(padding)

\* Track::live_preview, track.rs:117-149, on the snapshot buf of the buffer
live_preview(buf, target_size, player_position, playhead_position) ==
    LET player_pos == player_position * K
        diff == player_pos - (target_size \div 2)
    IN  IF diff >= 0
        THEN LET l == HalvesAsUsize(2 * player_pos - target_size)
                 r == Min(HalvesAsUsize(2 * player_pos + target_size), Len(buf))
             IN  Slice(buf, l, r)
        ELSE LET padding == ZeroPadding(-diff)
             IN  IF Len(buf) > 0
                 THEN LET rest == Slice(buf, 0, target_size - (-diff))
                      IN  IF rest.panic THEN Panicked
                          ELSE Returned(padding \o rest.out)
                 ELSE Returned(padding)

\* a caller of live_preview; &self, the Track is unchanged
CallLivePreview(target_size, player_position, playhead_position) ==
    /\ lp_args' = Some([target_size |-> target_size,
                        player_position |-> player_position,
                        playhead_position |-> playhead_position])
    /\ lp_res' = Some(live_preview(preview_buffer, target_size, player_position,
                                   playhead_position))
    /\ UNCHANGED <<trackVars, obsVars, pvVars, concVars, appVars>>

\* a caller of append_preview_samples between two renderings
LPAppend(batch) ==
    /\ append_preview_samples(batch)
    /\ lp_args' = None
    /\ lp_res' = None
    /\ UNCHANGED <<obsVars, pvVars, concVars, appVars>>

InitLP ==
    /\ n_frames = None
    /\ max_frames_per_packet = None
    /\ TrackNew
    /\ ObsIdle
    /\ LpIdle
    /\ ConcIdle
    /\ AppIdle

NextLP ==
    \/ \E batch \in Batches : LPAppend(batch)
    \/ \E ts \in 0..MaxTarget, pos \in 0..MaxPos, ph \in 0..MaxPlayhead :
          CallLivePreview(ts, pos, ph)

SpecLP == InitLP /\ [][NextLP]_vars

LpCalled == lp_args # None

LpArgs == Unwrap(lp_args)

LpRes == Unwrap(lp_res)

\* C1: live_preview returns exactly target_size elements, for every buffer
\* content (the empty buffer too), every target_size and every player
\* position within the packets analyzed so far.
LivePreviewExactLength ==
    (LpCalled /\ LpArgs.player_position * K <= Len(preview_buffer))
        => (~LpRes.panic /\ Len(LpRes.out) = LpArgs.target_size)

\* the sample at absolute index i (from 0) of the timeline: the buffer's sample
\* where there is one, a zero-valued sample at and beyond the buffer's end
SampleOrZero(buf, i) == IF i < Len(buf) THEN buf[i + 1] ELSE ZeroSample

\* C12: when center = player_position * K is at least half = target_size / 2,
\* live_preview returns the samples at the absolute indices center - half up
\* to (excluding) center + half, a zero-valued sample standing at every index
\* at or beyond the buffer's length.  Checked for even target_size (half is
\* then exactly half the width) and positions within the packets analyzed so
\* far.
LivePreviewWindow ==
    LET center == LpArgs.player_position * K
        half == LpArgs.target_size \div 2
    IN  (/\ LpCalled
         /\ LpArgs.target_size % 2 = 0
         /\ center >= half
         /\ center <= Len(preview_buffer))
        => (/\ ~LpRes.panic
            /\ LpRes.out = [i \in 1..(2 * half) |->
                               SampleOrZero(preview_buffer, center - half + i - 1)])

\* C13: for player_position = 0 and target_size > 0 the first target_size / 2
\* elements of the result are zero-valued samples and the remaining ones are
\* the buffer's samples from index 0 onward, followed by zero-valued samples
\* when the buffer holds fewer than the remaining width.
LivePreviewAtStart ==
    LET half == LpArgs.target_size \div 2
    IN  (/\ LpCalled
         /\ LpArgs.player_position = 0
         /\ LpArgs.target_size > 0)
        => (/\ ~LpRes.panic
            /\ LpRes.out = ZeroPadding(half)
                             \o [i \in 1..(LpArgs.target_size - half) |->
                                    SampleOrZero(preview_buffer, i - 1)])

LivePreviewNeverPanics ==
    (LpCalled /\ LpArgs.player_position * K <= Len(preview_buffer))
        => ~LpRes.panic

\* ------------------------------------------------------------------------
\* Track::preview (SpecPV)
\* ------------------------------------------------------------------------

\* Track::preview, track.rs:151-170.  n_frames.unwrap() and channels.unwrap()
\* panic on None; both returns hand out the whole buffer, the downsampling of
\* track.rs:163-164 is commented out.  n_frames is positive.
preview(target_size) ==
    IF n_frames = None THEN Panicked
    ELSE LET frames_per_packet == get_frames_per_packet
         IN  IF frames_per_packet # None
             THEN LET n_analyzed_packets == Len(preview_buffer) \div K
                      n_analyzed_frames == n_analyzed_packets * Unwrap(frames_per_packet)
                      scaled == F64FloorScaled(target_size, n_analyzed_frames,
                                               Unwrap(n_frames))
                  IN  IF scaled > 0
                      THEN IF channels = None THEN Panicked
                           ELSE Returned(preview_buffer)
                      ELSE Returned(preview_buffer)
             ELSE Returned(preview_buffer)

\* a caller of preview; &self, the Track is unchanged
CallPreview(target_size) ==
    /\ pv_args' = Some(target_size)
    /\ pv_res' = Some(preview(target_size))
    /\ UNCHANGED <<trackVars, obsVars, channels, lp_args, lp_res, concVars, appVars>>

\* a caller of append_preview_samples between two preview calls
PVAppend(batch) ==
    /\ append_preview_samples(batch)
    /\ pv_args' = None
    /\ pv_res' = None
    /\ UNCHANGED <<obsVars, channels, lp_args, lp_res, concVars, appVars>>

\* a caller of set_estimated_samples_per_packet between two preview calls
PVSetEstimate(v) ==
    /\ estimated_samples_per_packet' = SetIfAbsent(estimated_samples_per_packet, v)
    /\ pv_args' = None
    /\ pv_res' = None
    /\ UNCHANGED <<n_frames, max_frames_per_packet, preview_buffer, analyzed,
                   obsVars, channels, lp_args, lp_res, concVars, appVars>>

InitPV ==
    /\ n_frames \in NFramesVals
    /\ max_frames_per_packet \in MaxFppVals
    /\ channels \in ChannelsVals
    /\ TrackNew
    /\ ObsIdle
    /\ lp_args = None
    /\ lp_res = None
    /\ pv_args = None
    /\ pv_res = None
    /\ ConcIdle
    /\ AppIdle

NextPV ==
    \/ \E batch \in Batches : PVAppend(batch)
    \/ \E v \in EstVals : PVSetEstimate(v)
    \/ \E ts \in 0..MaxTarget : CallPreview(ts)

SpecPV == InitPV /\ [][NextPV]_vars

PvCalled == pv_args # None

PvRes == Unwrap(pv_res)

\* C14: while the analysis is incomplete, preview(target_size) returns exactly
\* floor(progress_fraction * target_size) samples, the front of the buffer,
\* progress_fraction being analyzed_frames / n_frames.  Checked where n_frames,
\* a frames-per-packet value and the channels are known.
PreviewScaled ==
    (/\ PvCalled
     /\ ~analyzed
     /\ n_frames # None
     /\ get_frames_per_packet # None
     /\ channels # None)
    => LET analyzed_frames == (Len(preview_buffer) \div K) * Unwrap(get_frames_per_packet)
           count == (analyzed_frames * Unwrap(pv_args)) \div Unwrap(n_frames)
       IN  analyzed_frames < Unwrap(n_frames)
           => /\ ~PvRes.panic
              /\ Len(PvRes.out) = count
              /\ \A i \in 1..count : i <= Len(preview_buffer)
                                        /\ PvRes.out[i] = preview_buffer[i]

\* ------------------------------------------------------------------------
\* Tasks appending to one Track concurrently (SpecConc).  A call of
\* append_preview_samples, track.rs:66, is: take the write lock of
\* preview_buffer, let Vec::append move the batch to the tail sample by
\* sample, drop the guard at the end of the statement.
\* ------------------------------------------------------------------------

\* mutant: the write lock excludes nobody
RwLockCanWriteAlways == TRUE

\* RwLock::write, track.rs:66: granted when no other guard is alive
RwLockCanWrite == lock_writer = None /\ lock_readers = {}

\* the call is made with a batch
AppendCall(t, batch) ==
    /\ task_pc[t] = "idle"
    /\ task_pc' = [task_pc EXCEPT ![t] = "lock"]
    /\ task_batch' = [task_batch EXCEPT ![t] = batch]
    /\ overlapped' = (overlapped \/ \E u \in Tasks \ {t} : task_pc[u] \in {"lock", "move"})
    /\ UNCHANGED <<trackVars, obsVars, lpVars, appVars, task_pending, task_start,
                   lock_writer, estVars, readVars>>

\* self.preview_buffer.write().unwrap()
AppendLock(t) ==
    /\ task_pc[t] = "lock"
    /\ RwLockCanWrite
    /\ lock_writer' = Some(t)
    /\ task_pc' = [task_pc EXCEPT ![t] = "move"]
    /\ task_pending' = [task_pending EXCEPT ![t] = task_batch[t]]
    /\ task_start' = [task_start EXCEPT ![t] = Len(preview_buffer)]
    /\ UNCHANGED <<trackVars, obsVars, lpVars, appVars, task_batch, overlapped,
                   estVars, readVars>>

\* .append(preview_samples): the next sample of the batch goes to the tail
AppendMove(t) ==
    /\ task_pc[t] = "move"
    /\ task_pending[t] # <<>>
    /\ preview_buffer' = VecAppend(preview_buffer, <<Head(task_pending[t])>>)
    /\ task_pending' = [task_pending EXCEPT ![t] = Tail(task_pending[t])]
    /\ UNCHANGED <<n_frames, max_frames_per_packet, estimated_samples_per_packet,
                   analyzed, obsVars, lpVars, appVars, task_pc, task_batch, task_start,
                   overlapped, lock_writer, estVars, readVars>>

\* the guard is dropped at the end of the statement
AppendUnlock(t) ==
    /\ task_pc[t] = "move"
    /\ task_pending[t] = <<>>
    /\ lock_writer' = None
    /\ task_pc' = [task_pc EXCEPT ![t] = "done"]
    /\ UNCHANGED <<trackVars, obsVars, lpVars, appVars, task_batch, task_pending, task_start,
                   overlapped, estVars, readVars>>

InitConc ==
    /\ n_frames = None
    /\ max_frames_per_packet = None
    /\ TrackNew
    /\ ObsIdle
    /\ LpIdle
    /\ ConcIdle
    /\ AppIdle

NextConc ==
    \E t \in Tasks :
        \/ \E batch \in Batches : AppendCall(t, batch)
        \/ AppendLock(t)
        \/ AppendMove(t)
        \/ AppendUnlock(t)

SpecConc == InitConc /\ [][NextConc]_vars

AllTasksDone == \A t \in Tasks : task_pc[t] = "done"

\* the run of the buffer a task's batch went to
RunOf(t) == SubSeq(preview_buffer, task_start[t] + 1, task_start[t] + Len(task_batch[t]))

\* C5: when two tasks have called append_preview_samples concurrently, the
\* buffer is as long as both batches together and each batch occupies one
\* contiguous run of it, in its original order, the runs not overlapping.
ConcurrentAppendsIntact ==
    AllTasksDone =>
        /\ Len(preview_buffer) = Len(task_batch[1]) + Len(task_batch[2])
        /\ \A t \in Tasks : RunOf(t) = task_batch[t]
        /\ \/ task_start[1] + Len(task_batch[1]) <= task_start[2]
           \/ task_start[2] + Len(task_batch[2]) <= task_start[1]

\* C5 witness: both calls have returned, one was made while the other was in
\* progress, and the batches differ and hold more than one sample each
ConcurrentAppendsWitness ==
    /\ AllTasksDone
    /\ overlapped
    /\ Len(task_batch[1]) > 1
    /\ Len(task_batch[2]) > 1
    /\ task_batch[1] # task_batch[2]
    /\ task_start[2] < task_start[1]

\* ------------------------------------------------------------------------
\* Tasks inside set_estimated_samples_per_packet on one Track (SpecEst).  A
\* call, track.rs:51-58, takes the read lock of the estimate, copies the
\* Option and drops that guard (track.rs:52-53); if the copy is None it then
\* takes the write lock and stores the value (track.rs:54-57).
\* ------------------------------------------------------------------------

\* the call is made with a value
EstCall(t, v) ==
    /\ task_pc[t] = "idle"
    /\ task_pc' = [task_pc EXCEPT ![t] = "est_read"]
    /\ task_arg' = [task_arg EXCEPT ![t] = Some(v)]
    /\ UNCHANGED <<trackVars, obsVars, lpVars, appVars, task_batch, task_pending,
                   task_start, overlapped, lock_writer, task_seen, est_seen, readVars>>

\* let estimated_samples_per_packet =
\*     self.estimated_samples_per_packet.read().unwrap().clone();
EstRead(t) ==
    /\ task_pc[t] = "est_read"
    /\ task_seen' = [task_seen EXCEPT ![t] = estimated_samples_per_packet]
    /\ task_pc' = [task_pc EXCEPT ![t] = "est_check"]
    /\ UNCHANGED <<trackVars, obsVars, lpVars, appVars, task_batch, task_pending,
                   task_start, overlapped, lock_writer, task_arg, est_seen, readVars>>

\* if let None = estimated_samples_per_packet { *write() = Some(v) }; the test
\* is made on the copy
EstWrite(t) ==
    /\ task_pc[t] = "est_check"
    /\ estimated_samples_per_packet' =
          IF task_seen[t] = None THEN task_arg[t] ELSE estimated_samples_per_packet
    /\ task_pc' = [task_pc EXCEPT ![t] = "done"]
    /\ UNCHANGED <<n_frames, max_frames_per_packet, preview_buffer, analyzed,
                   obsVars, lpVars, appVars, task_batch, task_pending, task_start,
                   overlapped, lock_writer, estVars, readVars>>

\* a reader of the estimate, get_frames_per_packet at track.rs:100
EstObserve ==
    /\ estimated_samples_per_packet # None
    /\ est_seen' = estimated_samples_per_packet
    /\ UNCHANGED <<trackVars, obsVars, lpVars, appVars, task_pc, task_batch,
                   task_pending, task_start, overlapped, lock_writer, task_arg,
                   task_seen, readVars>>

InitEst ==
    /\ n_frames = None
    /\ max_frames_per_packet = None
    /\ TrackNew
    /\ ObsIdle
    /\ LpIdle
    /\ ConcIdle
    /\ AppIdle

NextEst ==
    \/ \E t \in Tasks :
          \/ \E v \in EstVals : EstCall(t, v)
          \/ EstRead(t)
          \/ EstWrite(t)
    \/ EstObserve

SpecEst == InitEst /\ [][NextEst]_vars

\* C19: when two tasks call set_estimated_samples_per_packet concurrently, the
\* stored estimate changes at most once, from None to a value, and once a
\* reader has seen Some(v) every later reader sees the same v.
EstimateWriteOnceConcurrent ==
    [][/\ (estimated_samples_per_packet # None
             => estimated_samples_per_packet' = estimated_samples_per_packet)
       /\ (est_seen # None => est_seen' = est_seen)]_vars

\* ------------------------------------------------------------------------
\* Tasks calling live_preview while others append (SpecRead).  A call of
\* live_preview takes the read lock of preview_buffer, copies the buffer and
\* drops the guard at the end of that statement (track.rs:123); the window is
\* computed on the copy (track.rs:125-148).
\* ------------------------------------------------------------------------

\* samples in the buffer before the model stops appending
MaxReadBuf == 4

\* mutant: the read guard lives until live_preview returns
ReadGuardKept(readers, t) == readers

\* the temporary guard of track.rs:123 is dropped with the statement
ReadGuardDropped(readers, t) == readers \ {t}

\* RwLock::read, track.rs:123: granted when no write guard is alive
RwLockCanRead == lock_writer = None

\* a further call of append_preview_samples
RdAppendCall(t, batch) ==
    /\ Len(preview_buffer) + Len(batch) <= MaxReadBuf
    /\ AppendCall(t, batch)

\* append_preview_samples has returned, the task goes on
AppendReturn(t) ==
    /\ task_pc[t] = "done"
    /\ task_args[t] = None
    /\ task_pc' = [task_pc EXCEPT ![t] = "idle"]
    /\ UNCHANGED <<trackVars, obsVars, lpVars, appVars, task_batch, task_pending,
                   task_start, overlapped, lock_writer, estVars, readVars>>

\* the call is made
LpCall(t, target_size, player_position) ==
    /\ task_pc[t] = "idle"
    /\ task_pc' = [task_pc EXCEPT ![t] = "rlock"]
    /\ task_args' = [task_args EXCEPT ![t] =
                        Some([target_size |-> target_size,
                              player_position |-> player_position])]
    /\ UNCHANGED <<trackVars, obsVars, lpVars, appVars, task_batch, task_pending,
                   task_start, overlapped, lock_writer, estVars, lock_readers,
                   task_snapshot, task_result>>

\* self.preview_buffer.read().unwrap()
LpLock(t) ==
    /\ task_pc[t] = "rlock"
    /\ RwLockCanRead
    /\ lock_readers' = lock_readers \cup {t}
    /\ task_pc' = [task_pc EXCEPT ![t] = "copy"]
    /\ UNCHANGED <<trackVars, obsVars, lpVars, appVars, task_batch, task_pending,
                   task_start, overlapped, lock_writer, estVars, task_args,
                   task_snapshot, task_result>>

\* .to_owned(); the statement ends
LpCopy(t) ==
    /\ task_pc[t] = "copy"
    /\ task_snapshot' = [task_snapshot EXCEPT ![t] = preview_buffer]
    /\ lock_readers' = ReadGuardDropped(lock_readers, t)
    /\ task_pc' = [task_pc EXCEPT ![t] = "window"]
    /\ UNCHANGED <<trackVars, obsVars, lpVars, appVars, task_batch, task_pending,
                   task_start, overlapped, lock_writer, estVars, task_args,
                   task_result>>

\* track.rs:125-148 on the copy; every guard is gone when the function
\* returns.  overlapped records that the buffer has changed since the copy.
LpWindow(t) ==
    /\ task_pc[t] = "window"
    /\ task_result' = [task_result EXCEPT ![t] =
                          Some(live_preview(task_snapshot[t],
                                            Unwrap(task_args[t]).target_size,
                                            Unwrap(task_args[t]).player_position, 0))]
    /\ lock_readers' = lock_readers \ {t}
    /\ overlapped' = (overlapped \/ preview_buffer # task_snapshot[t])
    /\ task_pc' = [task_pc EXCEPT ![t] = "done"]
    /\ UNCHANGED <<trackVars, obsVars, lpVars, appVars, task_batch, task_pending,
                   task_start, lock_writer, estVars, task_args, task_snapshot>>

InitRead ==
    /\ n_frames = None
    /\ max_frames_per_packet = None
    /\ TrackNew
    /\ ObsIdle
    /\ LpIdle
    /\ ConcIdle
    /\ AppIdle

\* the task that appends: the Player's decode loop
Writer == 1

\* the task that renders
Reader == 2

NextRead ==
    \/ \E batch \in Batches : RdAppendCall(Writer, batch)
    \/ AppendLock(Writer)
    \/ AppendMove(Writer)
    \/ AppendUnlock(Writer)
    \/ AppendReturn(Writer)
    \/ \E ts \in 0..MaxReadBuf, pos \in 0..(MaxReadBuf \div K) :
          LpCall(Reader, ts, pos)
    \/ LpLock(Reader)
    \/ LpCopy(Reader)
    \/ LpWindow(Reader)

SpecRead == InitRead /\ [][NextRead]_vars

\* s is the front of b
IsPrefix(s, b) == Len(s) <= Len(b) /\ SubSeq(b, 1, Len(s)) = s

\* C20: a reader works on a point-in-time copy: a read guard of the buffer is
\* held only by a task that is copying, so that an append never waits for a
\* window computation; the copy is the front of every later buffer, and the
\* result is the window of that front, whatever has been appended since.
ReadersUseSnapshot ==
    \A t \in Tasks :
        /\ t \in lock_readers => task_pc[t] = "copy"
        /\ task_pc[t] \in {"window", "done"} /\ task_args[t] # None
             => IsPrefix(task_snapshot[t], preview_buffer)
        /\ task_pc[t] = "done" /\ task_args[t] # None
             => Unwrap(task_result[t])
                  = live_preview(SubSeq(preview_buffer, 1, Len(task_snapshot[t])),
                                 Unwrap(task_args[t]).target_size,
                                 Unwrap(task_args[t]).player_position, 0)

\* C20 witness: a call has returned buffer samples although the buffer grew
\* between its copy and its window computation, and an append is in progress
ReadersUseSnapshotWitness ==
    \E t \in Tasks :
        /\ task_pc[t] = "done"
        /\ task_args[t] # None
        /\ overlapped
        /\ ~Unwrap(task_result[t]).panic
        /\ \E i \in 1..Len(Unwrap(task_result[t]).out) :
              Unwrap(task_result[t]).out[i] # ZeroSample
        /\ Len(task_snapshot[t]) < Len(preview_buffer)
        /\ lock_writer # None

\* ------------------------------------------------------------------------
\* App::run: key handler, UI loop and Player on three channels (SpecApp)
\* ------------------------------------------------------------------------

\* keys read before the model stops reading
MaxKeys == 3

\* length of the loaded file in packets
TrackPackets == 2

\* channel::<Event>(10), app.rs:64
KeyEventsCap == 10

\* channel::<player::Event>(1), app.rs:65
PlayerEventsCap == 1

\* channel::<player::Message>(1), app.rs:66
PlayerMessagesCap == 1

\* mutant: one message more than the capacity is accepted
ChanHasRoomOffByOne(ch, cap) == Len(ch) <= cap

\* Sender::send completes only when the channel holds fewer than cap messages
ChanHasRoom(ch, cap) == Len(ch) < cap

\* mutant: a message sent replaces what the channel holds
ChanSendOverwrite(ch, x) == <<x>>

\* Sender::send: the message is queued behind those already in the channel
ChanSend(ch, x) == Append(ch, x)

\* mutant: the newest message is received first
ChanFrontNewest(ch) == ch[Len(ch)]

\* Receiver::try_recv / recv: the oldest message is received
ChanFront(ch) == Head(ch)

Keys == {"Enter", "Space", "q", "other"}

\* the match of spawn_key_handler, app.rs:98-103
KeyToEvent(k) ==
    CASE k = "Enter" -> "LoadTrack"
      [] k = "Space" -> "TogglePlay"
      [] k = "q"     -> "Quit"
      [] OTHER       -> "Unknown"

\* the Events update turns into a Message for the Player, app.rs:124-129
IsCommand(ev) == ev \in {"TogglePlay", "LoadTrack"}

\* app.rs:125 and app.rs:128
EventToMessage(ev) == IF ev = "TogglePlay" THEN "TogglePlay" ELSE "Load"

Running == ui_pc # "exited"

RECURSIVE CommandsOf(_)
\* the commands among a sequence of tagged Events, as their tags
CommandsOf(evs) ==
    IF evs = <<>> THEN <<>>
    ELSE (IF IsCommand(Head(evs).ev) THEN <<Head(evs).id>> ELSE <<>>)
         \o CommandsOf(Tail(evs))

RECURSIVE IdsOf(_)
IdsOf(ms) == IF ms = <<>> THEN <<>> ELSE <<Head(ms).id>> \o IdsOf(Tail(ms))

OptSeq(o) == IF o = None THEN <<>> ELSE <<Unwrap(o)>>

\* the commands queued between the key handler and the Player, oldest first
QueuedCommands ==
    IdsOf(player_messages) \o IdsOf(OptSeq(ui_msg)) \o CommandsOf(key_events)

\* the commands on their way to the Player, oldest first: those queued and
\* the one the key handler is sending
PendingCommands == QueuedCommands \o CommandsOf(OptSeq(kh_ev))

\* spawn_key_handler, app.rs:97-103: event::read() returns a key, which is
\* mapped to an Event.  The Event is tagged with its place in `pressed`.
KeyRead(k) ==
    /\ Running
    /\ kh_pc = "read"
    /\ Len(pressed) < MaxKeys
    /\ pressed' = Append(pressed, [ev |-> KeyToEvent(k), late |-> PendingCommands # <<>>])
    /\ kh_ev' = Some([ev |-> KeyToEvent(k), id |-> Len(pressed) + 1])
    /\ kh_pc' = "send"
    /\ UNCHANGED <<trackVars, obsVars, lpVars, concVars, key_events, player_events,
                   player_messages, ui_pc, ui_msg, app_player_position, player_pc,
                   player_state, position, received>>

\* app.send(ev).await, app.rs:104: suspended while key_events is full
KeySend ==
    /\ Running
    /\ kh_pc = "send"
    /\ ChanHasRoom(key_events, KeyEventsCap)
    /\ key_events' = ChanSend(key_events, Unwrap(kh_ev))
    /\ kh_ev' = None
    /\ kh_pc' = "read"
    /\ UNCHANGED <<trackVars, obsVars, lpVars, concVars, player_events,
                   player_messages, ui_pc, ui_msg, app_player_position, player_pc,
                   player_state, position, pressed, received>>

\* terminal.draw(|f| self.layout(f)), app.rs:77
UiDraw ==
    /\ ui_pc = "draw"
    /\ ui_pc' = "recv_key"
    /\ UNCHANGED <<trackVars, obsVars, lpVars, concVars, key_events, player_events,
                   player_messages, kh_pc, kh_ev, ui_msg, app_player_position,
                   player_pc, player_state, position, pressed, received>>

\* App::update, app.rs:122-135: key_events_in.try_recv() and the match
UiRecvKey ==
    /\ ui_pc = "recv_key"
    /\ IF key_events = <<>>
       THEN /\ ui_pc' = "recv_player"
            /\ UNCHANGED <<key_events, ui_msg>>
       ELSE LET e == ChanFront(key_events)
            IN  /\ key_events' = Tail(key_events)
                /\ IF IsCommand(e.ev)
                   THEN /\ ui_msg' = Some([msg |-> EventToMessage(e.ev), id |-> e.id])
                        /\ ui_pc' = "send"
                   ELSE /\ ui_msg' = ui_msg
                        /\ ui_pc' = IF e.ev = "Quit" THEN "exited" ELSE "recv_player"
    /\ UNCHANGED <<trackVars, obsVars, lpVars, concVars, player_events,
                   player_messages, kh_pc, kh_ev, app_player_position, player_pc,
                   player_state, position, pressed, received>>

\* player_messages_out.send(..).await, app.rs:125 and 128: suspended while
\* player_messages is full
UiSend ==
    /\ ui_pc = "send"
    /\ ChanHasRoom(player_messages, PlayerMessagesCap)
    /\ player_messages' = ChanSend(player_messages, Unwrap(ui_msg))
    /\ ui_msg' = None
    /\ ui_pc' = "recv_player"
    /\ UNCHANGED <<trackVars, obsVars, lpVars, concVars, key_events, player_events,
                   kh_pc, kh_ev, app_player_position, player_pc, player_state,
                   position, pressed, received>>

\* App::update, app.rs:136-143: player_events_in.try_recv(); then the loop of
\* App::run starts over
UiRecvPlayer ==
    /\ ui_pc = "recv_player"
    /\ IF player_events = <<>>
       THEN UNCHANGED <<player_events, app_player_position>>
       ELSE /\ player_events' = Tail(player_events)
            /\ app_player_position' = app_player_position + ChanFront(player_events)
    /\ ui_pc' = "draw"
    /\ UNCHANGED <<trackVars, obsVars, lpVars, concVars, key_events, player_messages,
                   kh_pc, kh_ev, ui_msg, player_pc, player_state, position, pressed,
                   received>>

\* Player: a command is received.  Load makes a fresh Track, resets the
\* position and starts playing; TogglePlay switches Playing and Paused and
\* does nothing without a track.
PlayerRecv ==
    /\ Running
    /\ player_pc = "loop"
    /\ player_messages # <<>>
    /\ LET m == ChanFront(player_messages)
       IN  /\ player_messages' = Tail(player_messages)
           /\ received' = Append(received, m)
           /\ IF m.msg = "Load"
              THEN /\ preview_buffer' = <<>>
                   /\ analyzed' = FALSE
                   /\ position' = 0
                   /\ player_state' = "Playing"
              ELSE /\ UNCHANGED <<preview_buffer, analyzed, position>>
                   /\ player_state' = CASE player_state = "Playing" -> "Paused"
                                         [] player_state = "Paused"  -> "Playing"
                                         [] OTHER -> player_state
    /\ UNCHANGED <<n_frames, max_frames_per_packet, estimated_samples_per_packet,
                   obsVars, lpVars, concVars, key_events, player_events, kh_pc, kh_ev,
                   ui_pc, ui_msg, app_player_position, player_pc, pressed>>

\* Player: one decode step: K preview samples are appended, the position
\* advances by one packet, PlayedPackage(1) is to be sent
PlayerDecode ==
    /\ Running
    /\ player_pc = "loop"
    /\ player_state = "Playing"
    /\ position < TrackPackets
    /\ preview_buffer' = VecAppend(preview_buffer, [i \in 1..K |-> 1])
    /\ position' = position + 1
    /\ player_pc' = "send_event"
    /\ UNCHANGED <<n_frames, max_frames_per_packet, estimated_samples_per_packet,
                   analyzed, obsVars, lpVars, concVars, key_events, player_events,
                   player_messages, kh_pc, kh_ev, ui_pc, ui_msg, app_player_position,
                   player_state, pressed, received>>

\* Player: PlayedPackage(1) is sent, suspended while player_events is full
PlayerSendEvent ==
    /\ Running
    /\ player_pc = "send_event"
    /\ ChanHasRoom(player_events, PlayerEventsCap)
    /\ player_events' = ChanSend(player_events, 1)
    /\ player_pc' = "loop"
    /\ UNCHANGED <<trackVars, obsVars, lpVars, concVars, key_events, player_messages,
                   kh_pc, kh_ev, ui_pc, ui_msg, app_player_position, player_state,
                   position, pressed, received>>

\* Player: end of stream: the track is marked analyzed, the Player is idle
PlayerEndOfStream ==
    /\ Running
    /\ player_pc = "loop"
    /\ player_state = "Playing"
    /\ position = TrackPackets
    /\ analyzed' = TRUE
    /\ player_state' = "Idle"
    /\ UNCHANGED <<n_frames, max_frames_per_packet, preview_buffer,
                   estimated_samples_per_packet, obsVars, lpVars, concVars,
                   key_events, player_events, player_messages, kh_pc, kh_ev, ui_pc,
                   ui_msg, app_player_position, player_pc, position, pressed, received>>

InitApp ==
    /\ n_frames = None
    /\ max_frames_per_packet = None
    /\ TrackNew
    /\ ObsIdle
    /\ LpIdle
    /\ ConcIdle
    /\ AppIdle

NextApp ==
    \/ \E k \in Keys : KeyRead(k)
    \/ KeySend
    \/ UiDraw
    \/ UiRecvKey
    \/ UiSend
    \/ UiRecvPlayer
    \/ PlayerRecv
    \/ PlayerDecode
    \/ PlayerSendEvent
    \/ PlayerEndOfStream

SpecApp == InitApp /\ [][NextApp]_vars

\* C7: the command channel holds at most one undelivered command; a send
\* made while it is full stays suspended, holding its message, and the
\* command in the channel is neither overwritten nor lost: it stays until
\* the Player receives exactly it.
CommandChannelHoldsOne ==
    [][/\ Len(player_messages') <= 1
       /\ (ui_pc = "send" /\ player_messages # <<>>
            => ui_pc' = "send" /\ ui_msg' = ui_msg)
       /\ (player_messages # <<>>
            => \/ player_messages' = player_messages
               \/ /\ player_messages' = <<>>
                  /\ received' = Append(received, Head(player_messages)))]_vars

\* C7 witness: a second Load is being sent while the first Load is still in
\* the channel
CommandChannelHoldsOneWitness ==
    /\ ui_pc = "send"
    /\ ui_msg # None
    /\ Unwrap(ui_msg).msg = "Load"
    /\ player_messages # <<>>
    /\ Head(player_messages).msg = "Load"

\* C8 as stated: a key pressed while an earlier command had not reached the
\* Player is not queued and never delivered to the Player: at most one
\* command is queued between the key handler and the Player.
LateKeyDropped ==
    /\ \A i \in 1..Len(received) : ~pressed[received[i].id].late
    /\ Len(QueuedCommands) <= 1

\* C8 as amended: no sender drops a command.  Every TogglePlay / LoadTrack
\* key read so far has either been received by the Player or is still on its
\* way (in the command channel, in the suspended send of update, in the
\* key-event channel or in the key handler's send), in the order of the key
\* presses; only the command channel itself is limited to one command.
NoCommandDropped ==
    /\ CommandsOf([i \in 1..Len(pressed) |-> [ev |-> pressed[i].ev, id |-> i]])
           = IdsOf(received) \o PendingCommands
    /\ Len(player_messages) <= PlayerMessagesCap

\* C8 witness: a key pressed while an earlier command was pending has been
\* delivered to the Player, and another command is queued behind it
NoCommandDroppedWitness ==
    /\ \E i \in 1..Len(received) : pressed[received[i].id].late
    /\ QueuedCommands # <<>>

\* C9: the Player receives the commands in the order of the key presses that
\* produced them, each at most once, each as the Message its key maps to.
CommandsInSendOrder ==
    /\ \A i, j \in 1..Len(received) : i < j => received[i].id < received[j].id
    /\ \A i \in 1..Len(received) :
          /\ received[i].id \in 1..Len(pressed)
          /\ IsCommand(pressed[received[i].id].ev)
          /\ received[i].msg = EventToMessage(pressed[received[i].id].ev)

\* C9 witness: three commands of both kinds have been received
CommandsInSendOrderWitness ==
    /\ Len(received) = 3
    /\ received[1].msg # received[2].msg
    /\ received[2].msg # received[3].msg

\* C16: whenever the UI loop is about to draw, the position it passes to the
\* rendering, App.player_position (app.rs:162 and app.rs:167), times K does
\* not exceed the length of the current track's preview buffer, also after a
\* Load has replaced the track.
PositionWithinBuffer ==
    ui_pc = "draw" => app_player_position * K <= Len(preview_buffer)

\* C17: the UI loop and the Player never block each other: no state has the
\* UI loop suspended in update, sending a command on the full command channel,
\* while the Player is suspended sending PlayedPackage on the full event
\* channel.
NoChannelDeadlock ==
    ~(/\ ui_pc = "send"
      /\ ~ChanHasRoom(player_messages, PlayerMessagesCap)
      /\ player_pc = "send_event"
      /\ ~ChanHasRoom(player_events, PlayerEventsCap))

====
